---- MODULE Spec2Model ----
(***************************************************************************)
(* State-machine model of calvin/runtime/north/scheduler.py: the task      *)
(* queue and dispatcher of BaseScheduler, the event API and strategy of    *)
(* SimpleScheduler, RoundRobinScheduler and NonPreemptiveScheduler, and    *)
(* the firing primitives.                                                  *)
(*                                                                         *)
(* Time.  The code reads time.time() and stores absolute deadlines.  The   *)
(* code only ever compares a deadline with another deadline or with the    *)
(* current time, so the model keeps every deadline RELATIVE to the current *)
(* instant, in whole seconds rounded up: field t of a task is the least    *)
(* whole number of seconds that is no less than deadline - time.time(),    *)
(* and 0 once the deadline has been reached.  A task inserted with a whole *)
(* delay d goes behind exactly the queued tasks whose count is at most d.  *)
(* The action Tick lets time pass.  A DelayedCall may fire at any time at  *)
(* or after its delay has elapsed (the async driver may be late, never     *)
(* early).                                                                 *)
(*                                                                         *)
(* Each action is one complete callback of the single-threaded driver.     *)
(***************************************************************************)
EXTENDS Integers, Sequences, FiniteSets, TLC

\* ---------------------------------------------------------------- bounds
\* Event handlers that enqueue are accepted while the queue is shorter.
MaxTasks == 4
\* Number of endpoints known to the runtime.
NumEndpoints == 2
\* trigger_maintenance_loop is accepted while fewer _maintenance_loop tasks wait.
MaxMaintenance == 2
\* Deadlines further away than this many seconds are not told apart.
Horizon == 3
\* Longest list of enabled actors handed to the firing functions.
MaxBatch == 2
\* Longest script of fire() results an actor is given.
MaxScript == 3
\* Most calls of schedule_calvinsys() the actors fired in one tick make.
MaxCalls == 2

\* ------------------------------------------------------ program constants
ReplicationInterval == 2
WatchdogDelay == 60
DefaultMaintenanceDelay == 300
\* Largest backoff of the event monitor, in seconds.
BackoffMax == 2

None == -1
EPs == 1..NumEndpoints

\* Values of the configuration key "maintenance_delay" the model is run with:
\* one below and one above the replication interval.
ConfMaintenanceDelay == {1, 3}

\* _conf.get(None, "maintenance_delay") or 300
MaintenanceDelay(conf) ==
    IF conf = None \/ conf = 0 THEN DefaultMaintenanceDelay ELSE conf
SchedulerKinds == {"SimpleScheduler", "RoundRobinScheduler", "NonPreemptiveScheduler"}

VARIABLES
    kind,               \* the scheduler class that was instantiated
    phase,              \* "init" (constructed), "running" (ioloop runs), "stopped"
    done,               \* self.done
    tasks,              \* self._tasks: sequence of [t, what]
    scheduled,          \* self._scheduled: id of a DelayedCall, or None
    calls,              \* DelayedCalls outstanding with the async driver
    maintenance_delay,  \* self._maintenance_delay
    endpoints,          \* monitor.endpoints
    backoff,            \* monitor's backoff record per endpoint
    last,               \* the task the latest callback ran, and how it ended
    burst,              \* the run of event calls of insert_task(strategy, 0) under way
    batch,              \* FireSpec: the actors handed to the firing code
    fired,              \* FireSpec: <<what firing them gave>>, <<>> before
    _trigger_set,       \* BaselineScheduler: self._trigger_set (actor ids)
    _watchdog,          \* BaselineScheduler: self._watchdog, a DelayedCall id or None
    _maintenance_loop_call  \* BaselineScheduler: self._maintenance_loop, likewise

vars == <<kind, phase, done, tasks, scheduled, calls, maintenance_delay,
          endpoints, backoff, last, burst, batch, fired, _trigger_set,
          _watchdog, _maintenance_loop_call>>

Max(a, b) == IF a >= b THEN a ELSE b
Min(a, b) == IF a <= b THEN a ELSE b

\* ------------------------------------------------------------ async driver
\* async.DelayedCall(delay, fn): a one-shot call registered with the driver.
DelayedCall(cs, id, delay, fn) ==
    cs \cup {[id |-> id, fn |-> fn, at |-> delay]}

\* handle.active(): registered and neither called nor cancelled.
active(cs, id) ==
    \E c \in cs : c.id = id

\* handle.cancel(): a no-op on a handle that is no longer active.
cancel(cs, id) ==
    {c \in cs : c.id # id}

\* Identity of a newly created handle: not an outstanding one, nor the one kept.
FreshId(cs, keep) ==
    CHOOSE n \in 1..(Cardinality(cs) + 2) :
        /\ n # keep
        /\ \A c \in cs : c.id # n
        /\ \A m \in 1..(n - 1) : m = keep \/ \E c \in cs : c.id = m

\* ------------------------------------------------- BaseScheduler task queue
\* The part of the scheduler a handler's calls to insert_task work on.
Sched(ts, sc, cs) ==
    [tasks |-> ts, scheduled |-> sc, calls |-> cs]

InsertAt(ts, index, task) ==
    SubSeq(ts, 1, index) \o <<task>> \o SubSeq(ts, index + 1, Len(ts))

\* The loop with the test ti[0] >= t: a new task goes before its equals.
InsertionIndexBeforeEqual(ts, t) ==
    IF \E i \in 1..Len(ts) : ts[i].t >= t
    THEN (CHOOSE i \in 1..Len(ts) :
              /\ ts[i].t >= t
              /\ \A j \in 1..(i - 1) : ~(ts[j].t >= t)) - 1
    ELSE Len(ts)

\* The loop of insert_task: index (0-based) of the first task later than t,
\* the length of the list when there is none.
InsertionIndex(ts, t) ==
    IF \E i \in 1..Len(ts) : ts[i].t > t
    THEN (CHOOSE i \in 1..Len(ts) :
              /\ ts[i].t > t
              /\ \A j \in 1..(i - 1) : ~(ts[j].t > t)) - 1
    ELSE Len(ts)

\* insert_task that coalesces whatever the delay.
CoalesceAnyDelay(ts, index, what, delay) ==
    index > 0 /\ ts[index].what = what

\* coalesce = (index > 0 and delay == 0 and self._tasks[index-1][1] == what)
Coalesce(ts, index, what, delay) ==
    index > 0 /\ delay = 0 /\ ts[index].what = what

\* _schedule_next that leaves the earlier handle registered.
ScheduleNextNoCancel(S, delay, what) ==
    LET id == FreshId(S.calls, None)
    IN  [S EXCEPT !.scheduled = id, !.calls = DelayedCall(S.calls, id, delay, what)]

_schedule_next(S, delay, what) ==
    LET cs1 == IF S.scheduled # None THEN cancel(S.calls, S.scheduled) ELSE S.calls
        id == FreshId(cs1, None)
    IN  [S EXCEPT !.scheduled = id, !.calls = DelayedCall(cs1, id, delay, what)]

\* insert_task from the point where its loop has found index.
InsertTaskAt(S, what, delay, index) ==
    LET t == delay
        task == [t |-> t, what |-> what]
    IN  IF Coalesce(S.tasks, index, what, delay)
        THEN S
        ELSE LET S1 == [S EXCEPT !.tasks = InsertAt(S.tasks, index, task)]
             IN  IF index = 0 THEN _schedule_next(S1, delay, "_process_next") ELSE S1

\* insert_task called with a whole number of seconds.
insert_task(S, what, delay) ==
    InsertTaskAt(S, what, delay, InsertionIndex(S.tasks, delay))

\* insert_task called with the time left to a deadline that an earlier callback
\* set, delay being that time in whole seconds, rounded up: the deadline lies
\* a fraction of a second away from those of the queued tasks with the same
\* count, and the loop stops at the first of them that is later.
InsertTaskUntil(S, what, delay) ==
    {InsertTaskAt(S, what, delay, index) :
        index \in Cardinality({i \in 1..Len(S.tasks) : S.tasks[i].t < delay})
                      ..InsertionIndex(S.tasks, delay)}

\* ------------------------------------------------------ firing primitives
\* An actor as the scheduler sees it during one pass: its id, the answer of
\* _authorized(), and a script: call i of fire() behaves as entry i (the last
\* entry for every later call).  An entry gives what fire() does (r: "fire" =
\* did_fire True, "idle" = did_fire False, "raise" = an exception), the rest
\* of the returned tuple, and how long the call takes in milliseconds.
Entry(r, ms, output_ok, exhausted) ==
    [r |-> r, ms |-> ms, output_ok |-> output_ok, exhausted |-> exhausted]

Actor(id, auth, script) ==
    [id |-> id, auth |-> auth, script |-> script]

\* Call number n (1-based) of actor.fire().
fire(script, n) ==
    script[Min(n, Len(script))]

\* Outcome of one firing primitive: the value returned (ret), whether an
\* exception left the call (raised), whether the call never returns (hang),
\* the number of fire() calls made, the arguments of every call of
\* _handle_exhaustion, and the milliseconds spent.
Outcome(ret, raised, hang, fires, exh, spent) ==
    [ret |-> ret, raised |-> raised, hang |-> hang, fires |-> fires,
     exh |-> exh, spent |-> spent]

FireBudgetMs == 20

\* The loop that already stops when the budget is just reached.
BudgetSpentAtBudget(time_spent) ==
    time_spent >= FireBudgetMs

\* Does the preemptive loop stop after a successful fire()?
BudgetSpent(time_spent) ==
    time_spent > FireBudgetMs

RECURSIVE FireLoop(_, _, _, _)
FireLoop(script, n, elapsed, actor_did_fire) ==
    LET e == fire(script, n + 1)
        time_spent == elapsed + e.ms
    IN  IF e.r = "raise"
        THEN Outcome(FALSE, TRUE, FALSE, n + 1, <<>>, time_spent)
        ELSE IF e.r = "fire"
        THEN IF BudgetSpent(time_spent)
             THEN Outcome(TRUE, FALSE, FALSE, n + 1, <<>>, time_spent)
             ELSE FireLoop(script, n + 1, time_spent, TRUE)
        ELSE Outcome(actor_did_fire, FALSE, FALSE, n + 1,
                     <<(<<e.exhausted, e.output_ok>>)>>, time_spent)

\* _fire_actor that handles exhaustion whenever its loop ends, also when
\* the budget ended it.
FireActorAlwaysExhausts(actor) ==
    IF ~actor.auth
    THEN Outcome(FALSE, FALSE, FALSE, 0, <<>>, 0)
    ELSE LET o == FireLoop(actor.script, 0, 0, FALSE)
             e == fire(actor.script, o.fires)
         IN  IF o.raised
             THEN o
             ELSE [o EXCEPT !.exh = <<(<<e.exhausted, e.output_ok>>)>>]

_fire_actor(actor) ==
    IF ~actor.auth
    THEN Outcome(FALSE, FALSE, FALSE, 0, <<>>, 0)
    ELSE FireLoop(actor.script, 0, 0, FALSE)

RECURSIVE NonPreemptiveLoop(_, _, _, _)
NonPreemptiveLoop(script, n, elapsed, actor_did_fire) ==
    LET e == fire(script, n + 1)
        time_spent == elapsed + e.ms
    IN  IF e.r = "raise"
        THEN Outcome(FALSE, TRUE, FALSE, n + 1, <<>>, time_spent)
        ELSE IF e.r = "fire"
        THEN IF n + 1 >= Len(script)
             THEN Outcome(FALSE, FALSE, TRUE, n + 1, <<>>, time_spent)
             ELSE NonPreemptiveLoop(script, n + 1, time_spent, TRUE)
        ELSE Outcome(actor_did_fire, FALSE, FALSE, n + 1,
                     <<(<<e.exhausted, e.output_ok>>)>>, time_spent)

\* The non-preemptive primitive with the time budget of the preemptive one.
NonPreemptiveWithBudget(actor) ==
    _fire_actor(actor)

_fire_actor_non_preemptive(actor) ==
    IF ~actor.auth
    THEN Outcome(FALSE, FALSE, FALSE, 0, <<>>, 0)
    ELSE NonPreemptiveLoop(actor.script, 0, 0, FALSE)

_fire_actor_once(actor) ==
    IF ~actor.auth
    THEN Outcome(FALSE, FALSE, FALSE, 0, <<>>, 0)
    ELSE LET e == fire(actor.script, 1)
         IN  IF e.r = "raise"
             THEN Outcome(FALSE, TRUE, FALSE, 1, <<>>, e.ms)
             ELSE IF e.r = "fire"
             THEN Outcome(TRUE, FALSE, FALSE, 1, <<>>, e.ms)
             ELSE Outcome(FALSE, FALSE, FALSE, 1,
                          <<(<<e.exhausted, e.output_ok>>)>>, e.ms)

\* Outcome of firing a batch: the ids that fired (ids), the actors the
\* primitive was called on, in order (attempted), the actors whose exception
\* was caught and logged (logged), whether an exception left the batch
\* (raised) and whether the batch never returns (hang).
Batch(ids, attempted, logged, raised, hang) ==
    [ids |-> ids, attempted |-> attempted, logged |-> logged,
     raised |-> raised, hang |-> hang]

\* _fire_actors without the exception handler.
CaughtNever(o) ==
    FALSE

\* try: ... except Exception as e: _log.exception(e)
Caught(o) ==
    o.raised

RECURSIVE FireActorsFrom(_, _, _)
FireActorsFrom(actors, k, acc) ==
    IF k > Len(actors)
    THEN acc
    ELSE LET actor == actors[k]
             o == _fire_actor(actor)
             att == Append(acc.attempted, actor.id)
         IN  IF o.raised /\ ~Caught(o)
             THEN Batch(acc.ids, att, acc.logged, TRUE, FALSE)
             ELSE IF o.raised
             THEN FireActorsFrom(actors, k + 1,
                      Batch(acc.ids, att, acc.logged \cup {actor.id}, FALSE, FALSE))
             ELSE FireActorsFrom(actors, k + 1,
                      Batch(IF o.ret THEN acc.ids \cup {actor.id} ELSE acc.ids,
                            att, acc.logged, FALSE, FALSE))

_fire_actors(actors) ==
    FireActorsFrom(actors, 1, Batch({}, <<>>, {}, FALSE, FALSE))

\* [actor.id for actor in actors_to_fire if self._fire_actor_once(actor)] and
\* the same with _fire_actor_non_preemptive: no exception handler.
RECURSIVE Comprehension(_, _, _, _)
Comprehension(actors, once, k, acc) ==
    IF k > Len(actors)
    THEN acc
    ELSE LET actor == actors[k]
             o == IF once THEN _fire_actor_once(actor)
                          ELSE _fire_actor_non_preemptive(actor)
             att == Append(acc.attempted, actor.id)
         IN  IF o.raised \/ o.hang
             THEN Batch(acc.ids, att, acc.logged, o.raised, o.hang)
             ELSE Comprehension(actors, once, k + 1,
                      Batch(IF o.ret THEN acc.ids \cup {actor.id} ELSE acc.ids,
                            att, acc.logged, FALSE, FALSE))

\* did_fire_actor_ids of the strategy of each scheduler class.
FireEnabled(k, actors) ==
    IF k = "SimpleScheduler"
    THEN _fire_actors(actors)
    ELSE Comprehension(actors, k = "RoundRobinScheduler", 1,
                       Batch({}, <<>>, {}, FALSE, FALSE))

\* ------------------------------------------------------------ event monitor
\* Backoff record of an endpoint: on (a record exists), until (seconds left
\* until re-sending may be attempted, 0 once expired), bo (the last backoff).
NoBackoff ==
    [on |-> FALSE, until |-> 0, bo |-> 0]

register_endpoint(eps, ep) ==
    eps \cup {ep}

unregister_endpoint(eps, ep) ==
    eps \ {ep}

set_backoff(b, ep) ==
    LET bo == Min(BackoffMax, IF b[ep].bo = 0 THEN 1 ELSE 2 * b[ep].bo)
    IN  [b EXCEPT ![ep] = [on |-> TRUE, until |-> bo, bo |-> bo]]

clear_backoff(b, ep) ==
    [b EXCEPT ![ep] = NoBackoff]

\* Seconds until the most imminent backoff expires, None when no endpoint is
\* backed off.
next_slot(b) ==
    IF \E ep \in EPs : b[ep].on
    THEN CHOOSE u \in 0..BackoffMax :
             /\ \E ep \in EPs : b[ep].on /\ b[ep].until = u
             /\ \A ep \in EPs : b[ep].on => b[ep].until >= u
    ELSE None

\* Endpoints communicate() may transfer on: those whose backoff has expired.
Ready(eps, b) ==
    {ep \in eps : ~(b[ep].on /\ b[ep].until > 0)}

\* The values communicate(endpoints) can return: True only when a token moved.
communicate(eps, b) ==
    IF Ready(eps, b) # {} THEN BOOLEAN ELSE {FALSE}

\* ------------------------------------------------------------ task bodies
\* What running a task leaves: the scheduler state, whether the callable
\* returned normally (ok) and whether a collaborator raised in it (fault).
Ran(S, ok, fault) ==
    [S |-> S, ok |-> ok, fault |-> fault]

\* How many deadlines pass in all, given how many pass in each stretch.
RECURSIVE SumSeq(_)
SumSeq(ns) ==
    IF ns = <<>> THEN 0 ELSE Head(ns) + SumSeq(Tail(ns))

\* The number of tasks that are due within the second and not yet due.
Imminent(ts) ==
    Cardinality({i \in 1..Len(ts) : ts[i].t = 1})

\* The queue after the deadlines of its first n imminent tasks have passed
\* (the queue is in time order: they fall due in queue order).
FallDue(ts, n) ==
    IF n = 0
    THEN ts
    ELSE [i \in 1..Len(ts) |->
             IF ts[i].t = 1 /\ Cardinality({j \in 1..i : ts[j].t = 1}) <= n
             THEN [ts[i] EXCEPT !.t = 0]
             ELSE ts[i]]

\* The scheduler after the collaborators of a task have taken their time: the
\* clock is read anew by every insert_task that follows, and by _process_next.
Took(S, due) ==
    [S EXCEPT !.tasks = FallDue(@, due)]

\* _check_replication that does not enqueue its successor.
CheckReplicationOnce(S, rl_ok, due) ==
    IF ~rl_ok
    THEN Ran(Took(S, due), FALSE, TRUE)
    ELSE Ran(insert_task(Took(S, due), "strategy", 0), TRUE, FALSE)

\* rl_ok: node.rm.replication_loop() returns normally.  due: the number of
\* imminent tasks whose deadline passes while replication_loop() executes.
_check_replication(S, rl_ok, due) ==
    IF ~rl_ok
    THEN Ran(Took(S, due), FALSE, TRUE)
    ELSE Ran(insert_task(insert_task(Took(S, due), "strategy", 0),
                         "_check_replication", ReplicationInterval),
             TRUE, FALSE)

\* mig_ok: every migrate() and enable_or_migrate() call returns normally.
\* due: the number of imminent tasks whose deadline passes while they execute.
_maintenance_loop(S, delay, mig_ok, due) ==
    IF ~mig_ok
    THEN Ran(Took(S, due), FALSE, TRUE)
    ELSE Ran(insert_task(insert_task(Took(S, due), "strategy", 0),
                         "_maintenance_loop", delay),
             TRUE, FALSE)

\* The calls of schedule_calvinsys() the actors make while they are fired,
\* one after the other.  cbs[i]: the number of imminent tasks whose deadline
\* passes before call i and after the call before it; each insert_task reads
\* the clock anew.
RECURSIVE CallBacks(_, _)
CallBacks(S, cbs) ==
    IF cbs = <<>>
    THEN S
    ELSE CallBacks(insert_task(Took(S, Head(cbs)), "strategy", 0), Tail(cbs))

\* One strategy tick of scheduler class k.  cbs: the calls of
\* schedule_calvinsys() made by the actors' fire() while the tick is
\* executing.  communicate() and the firing take time; due: the number of
\* imminent tasks whose deadline passes after the last of these calls and
\* before the firing ends, by a return or by an exception.
strategy(S, k, did_transfer_tokens, actors, cbs, due) ==
    LET S0 == CallBacks(S, cbs)
        did_fire == FireEnabled(k, actors)
        activity == did_transfer_tokens \/ did_fire.ids # {}
        S1 == Took(S0, due)
    IN  IF did_fire.raised
        THEN Ran(S1, FALSE, TRUE)
        ELSE Ran(IF activity THEN insert_task(S1, "strategy", 0) ELSE S1,
                 TRUE, did_fire.logged # {})

\* BaseScheduler.watchdog (pass) in place of SimpleScheduler.watchdog.
WatchdogPass(S, due) ==
    Ran(Took(S, due), TRUE, FALSE)

\* due: the number of imminent tasks whose deadline passes while it logs.
watchdog(S, due) ==
    Ran(insert_task(Took(S, due), "strategy", 0), TRUE, FALSE)

\* _process_next that sets no watchdog when the queue is empty.
RearmNoWatchdog(S) ==
    IF S.tasks # <<>>
    THEN _schedule_next(S, Max(0, S.tasks[1].t), "_process_next")
    ELSE S

\* _process_next that re-arms at once instead of at the head's deadline.
RearmAtOnce(S) ==
    IF S.tasks # <<>>
    THEN _schedule_next(S, 0, "_process_next")
    ELSE insert_task(S, "watchdog", WatchdogDelay)

\* The end of _process_next after todo() returned: re-arm for the head, or
\* set the watchdog when the queue is empty.
Rearm(S) ==
    IF S.tasks # <<>>
    THEN _schedule_next(S, Max(0, S.tasks[1].t), "_process_next")
    ELSE insert_task(S, "watchdog", WatchdogDelay)

\* if not self._scheduled.active(): raise Exception("NO SCHEDULED TASK!")
NoScheduledTask(S) ==
    ~active(S.calls, S.scheduled)

\* ------------------------------------------------------------------ inputs
\* Behaviours of an actor's fire(): never fires; fires once and is then idle;
\* raises; fires for 25 ms every time it is asked.
Idle == <<Entry("idle", 1, TRUE, FALSE)>>
FiresOnce == <<Entry("fire", 1, TRUE, FALSE), Entry("idle", 1, TRUE, FALSE)>>
Raises == <<Entry("raise", 1, TRUE, FALSE)>>
Busy == <<Entry("fire", 25, TRUE, FALSE)>>

Profiles ==
    {[auth |-> TRUE, script |-> Idle], [auth |-> TRUE, script |-> FiresOnce],
     [auth |-> TRUE, script |-> Raises], [auth |-> TRUE, script |-> Busy],
     [auth |-> FALSE, script |-> FiresOnce]}

\* The lists of n enabled actors; the actor at position i has id i.
BatchesOf(n) ==
    {[i \in 1..n |-> Actor(i, f[i].auth, f[i].script)] : f \in [1..n -> Profiles]}

Batches ==
    UNION {BatchesOf(n) : n \in 0..MaxBatch}

\* The actors the actor manager reports as enabled during one strategy tick of
\* the running scheduler: two authorized actors, the first idle or raising, the
\* second idle or firing.
EnabledActors ==
    {b \in BatchesOf(2) :
        /\ b[1].auth /\ b[1].script \in {Idle, Raises}
        /\ b[2].auth /\ b[2].script \in {Idle, FiresOnce}}

\* ----------------------------------------------------------------- actions
Here == Sched(tasks, scheduled, calls)

Did(op, what, result, fault) ==
    [op |-> op, what |-> what, result |-> result, fault |-> fault]

\* Value of last after any callback other than _process_next.
Other ==
    Did("", "", "ok", FALSE)

\* A burst: event calls of insert_task(strategy, 0) that follow each other with
\* no callback of another kind in between (time may pass).  calls: how many so
\* far (2: two or more); n: how many entries they added to the queue.
NoBurst ==
    [calls |-> 0, n |-> 0]

Called(b, before, after) ==
    [calls |-> Min(b.calls + 1, 2), n |-> b.n + (Len(after) - Len(before))]

\* The burst made of the calls cbs of schedule_calvinsys() during a tick that
\* runs on S, started from b.
RECURSIVE CalledBack(_, _, _)
CalledBack(S, cbs, b) ==
    IF cbs = <<>>
    THEN b
    ELSE LET Sa == Took(S, Head(cbs))
             Sb == insert_task(Sa, "strategy", 0)
         IN  CalledBack(Sb, Tail(cbs), Called(b, Sa.tasks, Sb.tasks))

Put(S) ==
    /\ tasks' = S.tasks
    /\ scheduled' = S.scheduled
    /\ calls' = S.calls

Waiting(what) ==
    Cardinality({i \in 1..Len(tasks) : tasks[i].what = what})

Init ==
    /\ kind \in SchedulerKinds
    /\ _trigger_set = {}
    /\ _watchdog = None
    /\ _maintenance_loop_call = None
    /\ phase = "init"
    /\ done = FALSE
    /\ tasks = <<>>
    /\ scheduled = None
    /\ calls = {}
    /\ maintenance_delay \in {MaintenanceDelay(conf) : conf \in ConfMaintenanceDelay}
    /\ endpoints = {}
    /\ backoff = [ep \in EPs |-> NoBackoff]
    /\ last = Other
    /\ burst = NoBurst
    /\ batch = <<>>
    /\ fired = <<>>

\* run() that forgets the immediate strategy.
RunWithoutStrategy ==
    /\ phase = "init"
    /\ Put(insert_task(
               insert_task(Here, "_maintenance_loop", maintenance_delay),
               "_check_replication", ReplicationInterval))
    /\ phase' = "running"
    /\ last' = Other
    /\ burst' = NoBurst
    /\ UNCHANGED <<kind, _trigger_set, _watchdog, _maintenance_loop_call, done, maintenance_delay, endpoints, backoff, batch, fired>>

run ==
    /\ phase = "init"
    /\ Put(insert_task(
               insert_task(
                   insert_task(Here, "_maintenance_loop", maintenance_delay),
                   "_check_replication", ReplicationInterval),
               "strategy", 0))
    /\ phase' = "running"
    /\ last' = Other
    /\ burst' = NoBurst
    /\ UNCHANGED <<kind, _trigger_set, _watchdog, _maintenance_loop_call, done, maintenance_delay, endpoints, backoff, batch, fired>>

\* stop() without the test of self.done.
StopAlwaysPosts ==
    /\ calls' = DelayedCall(calls, FreshId(calls, scheduled), 0, "stop_ioloop")
    /\ done' = TRUE
    /\ last' = Other
    /\ burst' = NoBurst
    /\ UNCHANGED <<kind, _trigger_set, _watchdog, _maintenance_loop_call, phase, tasks, scheduled, maintenance_delay, endpoints,
                   backoff, batch, fired>>

stop ==
    /\ calls' = IF ~done
                THEN DelayedCall(calls, FreshId(calls, scheduled), 0, "stop_ioloop")
                ELSE calls
    /\ done' = TRUE
    /\ last' = Other
    /\ burst' = NoBurst
    /\ UNCHANGED <<kind, _trigger_set, _watchdog, _maintenance_loop_call, phase, tasks, scheduled, maintenance_delay, endpoints,
                   backoff, batch, fired>>

\* The driver runs the DelayedCall posted by stop().
stop_ioloop ==
    /\ phase = "running"
    /\ \E c \in calls :
           /\ c.fn = "stop_ioloop"
           /\ c.at = 0
           /\ calls' = calls \ {c}
    /\ phase' = "stopped"
    /\ last' = Other
    /\ burst' = NoBurst
    /\ UNCHANGED <<kind, _trigger_set, _watchdog, _maintenance_loop_call, done, tasks, scheduled, maintenance_delay, endpoints,
                   backoff, batch, fired>>

\* Time.  A deadline is kept as the whole seconds left to it, rounded up, and
\* one more than Horizon seconds away is kept as set (its count says that more
\* than Horizon seconds are left, and no more than the count).  While up to a
\* second passes a count drops by one or stays, as the fraction of a second
\* the deadline carries decides, and a far deadline stays far or comes within
\* Horizon seconds.
Passed(x) ==
    IF x > Horizon THEN Horizon ELSE x - 1

\* The sets of queued tasks whose counts can drop together: deadlines set by
\* different callbacks lie fractions of a second apart, and of two tasks with
\* the same count, or both far, the one queued first is the earlier.
Passing(ts) ==
    {D \in SUBSET {i \in 1..Len(ts) : ts[i].t > 0} :
        \A i, j \in 1..Len(ts) :
            (i < j /\ j \in D /\ (ts[i].t = ts[j].t \/ ts[i].t > Horizon))
                => i \in D}

\* The DelayedCall that _schedule_next armed for the head of the queue: the
\* two share a deadline.
ForHead(c) ==
    c.id = scheduled /\ tasks # <<>> /\ c.at = tasks[1].t

\* Time passes, up to the instant at which the count of the next deadline
\* drops: that of a task (and of the DelayedCall armed for it), of another
\* DelayedCall or of a backoff; a task with one second left falls due.  A
\* longer time is a sequence of such steps.
Tick ==
    /\ phase = "running"
    /\ \E D \in Passing(tasks),
          C \in SUBSET {c \in calls : c.at > 0},
          E \in SUBSET {ep \in EPs : backoff[ep].until > 0} :
         /\ \A c \in calls : (c.at > 0 /\ ForHead(c)) => (c \in C <=> 1 \in D)
         /\ Cardinality(D) + Cardinality({c \in C : ~ForHead(c)}) + Cardinality(E) = 1
         /\ tasks' = [i \in 1..Len(tasks) |->
                         IF i \in D THEN [tasks[i] EXCEPT !.t = Passed(@)]
                         ELSE tasks[i]]
         /\ calls' = {IF c \in C THEN [c EXCEPT !.at = Passed(@)] ELSE c :
                         c \in calls}
         /\ backoff' = [ep \in EPs |->
                           IF ep \in E THEN [backoff[ep] EXCEPT !.until = Passed(@)]
                           ELSE backoff[ep]]
    /\ last' = Other
    /\ UNCHANGED <<kind, _trigger_set, _watchdog, _maintenance_loop_call, phase, done, scheduled, maintenance_delay, endpoints,
                   burst, batch, fired>>

\* The task popped by _process_next, run on the rest of the queue.
Todo(S, what, in) ==
    CASE what = "strategy" ->
             strategy(S, kind, in.did_tx, in.actors, in.cbs, in.due)
      [] what = "_check_replication" -> _check_replication(S, in.ok, in.due)
      [] what = "_maintenance_loop" ->
             _maintenance_loop(S, maintenance_delay, in.ok, in.due)
      [] what = "watchdog" -> watchdog(S, in.due)

\* What the collaborators do while the task runs.
\* (enabled: the lists enabled_actors() may return; most: how many calls of
\* schedule_calvinsys() the actors fired may make; returns: whether
\* replication_loop(), migrate() and enable_or_migrate() return normally;
\* cbs, due: how many imminent tasks fall due while the collaborators of the
\* task execute, before each of the actors' calls of schedule_calvinsys() and
\* after the last.)
Inputs(what, enabled, most, returns) ==
    LET imminent == Imminent(Tail(tasks))
        soon == 0..imminent
    IN  IF what = "strategy"
        THEN {in \in [did_tx : communicate(endpoints, backoff), actors : enabled,
                      cbs : UNION {[1..m -> soon] : m \in 0..most},
                      ok : {TRUE}, due : soon] :
                 /\ SumSeq(in.cbs) + in.due <= imminent
                 /\ in.cbs # <<>> => in.actors # <<>>}
        ELSE IF what = "watchdog"
        THEN [did_tx : {FALSE}, actors : {<<>>}, cbs : {<<>>}, ok : {TRUE},
              due : soon]
        ELSE [did_tx : {FALSE}, actors : {<<>>}, cbs : {<<>>}, ok : returns,
              due : soon]

\* The driver runs a DelayedCall that is due: _process_next().
ProcessNext(enabled, most, returns) ==
    /\ phase = "running"
    /\ \E c \in calls :
         /\ c.fn = "_process_next"
         /\ c.at = 0
         /\ IF tasks = <<>>
            THEN /\ calls' = calls \ {c}
                 /\ last' = Did("_process_next", "", "IndexError", FALSE)
                 /\ burst' = NoBurst
                 /\ UNCHANGED <<tasks, scheduled>>
            ELSE \E in \in Inputs(Head(tasks).what, enabled, most, returns),
                    S0 \in {Sched(Tail(tasks), scheduled, calls \ {c})} :
                 \E r \in {Todo(S0, Head(tasks).what, in)} :
                 \E S1 \in {IF r.ok THEN Rearm(r.S) ELSE r.S} :
                   LET what == Head(tasks).what
                       result == IF ~r.ok THEN "raised"
                                 ELSE IF NoScheduledTask(S1) THEN "NO SCHEDULED TASK!"
                                 ELSE "ok"
                   IN  /\ Put(S1)
                       /\ last' = Did("_process_next", what, result, r.fault)
                       /\ burst' = CalledBack(S0, in.cbs, NoBurst)
    /\ UNCHANGED <<kind, _trigger_set, _watchdog, _maintenance_loop_call, phase, done, maintenance_delay, endpoints, backoff, batch, fired>>

_process_next ==
    ProcessNext(EnabledActors, MaxCalls, BOOLEAN)

\* _process_next while no actor is enabled.
ProcessNextQuiet ==
    ProcessNext({<<>>}, 0, BOOLEAN)

\* _process_next while no actor is enabled and no collaborator raises.
ProcessNextSound ==
    ProcessNext({<<>>}, 0, {TRUE})

\* ------------------------------------------- event API of SimpleScheduler
Accepting ==
    phase = "running" /\ Len(tasks) < MaxTasks

tunnel_rx(endpoint) ==
    /\ Accepting
    /\ Put(insert_task(Here, "strategy", 0))
    /\ burst' = Called(burst, tasks, tasks')
    /\ last' = Other
    /\ UNCHANGED <<kind, _trigger_set, _watchdog, _maintenance_loop_call, phase, done, maintenance_delay, endpoints, backoff,
                   batch, fired>>

tunnel_tx_ack(endpoint) ==
    /\ Accepting
    /\ endpoint \in endpoints
    /\ backoff' = clear_backoff(backoff, endpoint)
    /\ Put(insert_task(Here, "strategy", 0))
    /\ burst' = Called(burst, tasks, tasks')
    /\ last' = Other
    /\ UNCHANGED <<kind, _trigger_set, _watchdog, _maintenance_loop_call, phase, done, maintenance_delay, endpoints, batch, fired>>

\* next_slot() is the blocked_until the call has just set for endpoint (a whole
\* number of seconds from now), unless another endpoint's comes no later.
tunnel_tx_nack(endpoint) ==
    /\ Accepting
    /\ endpoint \in endpoints
    /\ backoff' = set_backoff(backoff, endpoint)
    /\ LET slot == next_slot(backoff')
           mine == \A ep \in EPs \ {endpoint} :
                       backoff'[ep].on => backoff'[ep].until > slot
       IN  IF slot = None
           THEN UNCHANGED <<tasks, scheduled, calls>>
           ELSE IF slot <= 0 \/ mine
           THEN Put(insert_task(Here, "strategy", Max(0, slot)))
           ELSE \E S \in InsertTaskUntil(Here, "strategy", slot) : Put(S)
    /\ last' = Other
    /\ burst' = NoBurst
    /\ UNCHANGED <<kind, _trigger_set, _watchdog, _maintenance_loop_call, phase, done, maintenance_delay, endpoints, batch, fired>>

tunnel_tx_throttle(endpoint) ==
    /\ phase = "running"
    /\ endpoint \in endpoints
    /\ last' = Other
    /\ burst' = NoBurst
    /\ UNCHANGED <<kind, _trigger_set, _watchdog, _maintenance_loop_call, phase, done, tasks, scheduled, calls, maintenance_delay,
                   endpoints, backoff, batch, fired>>

schedule_calvinsys ==
    /\ Accepting
    /\ Put(insert_task(Here, "strategy", 0))
    /\ burst' = Called(burst, tasks, tasks')
    /\ last' = Other
    /\ UNCHANGED <<kind, _trigger_set, _watchdog, _maintenance_loop_call, phase, done, maintenance_delay, endpoints, backoff,
                   batch, fired>>

RegisterEndpoint(endpoint) ==
    /\ phase = "running"
    /\ endpoints' = register_endpoint(endpoints, endpoint)
    /\ last' = Other
    /\ burst' = NoBurst
    /\ UNCHANGED <<kind, _trigger_set, _watchdog, _maintenance_loop_call, phase, done, tasks, scheduled, calls, maintenance_delay,
                   backoff, batch, fired>>

UnregisterEndpoint(endpoint) ==
    /\ phase = "running"
    /\ endpoints' = unregister_endpoint(endpoints, endpoint)
    /\ last' = Other
    /\ burst' = NoBurst
    /\ UNCHANGED <<kind, _trigger_set, _watchdog, _maintenance_loop_call, phase, done, tasks, scheduled, calls, maintenance_delay,
                   backoff, batch, fired>>

\* trigger_maintenance_loop without the test of delay.
TriggerIgnoresDelay(delay) ==
    /\ phase = "running"
    /\ Len(tasks) < MaxTasks
    /\ Waiting("_maintenance_loop") < MaxMaintenance
    /\ Put(insert_task(Here, "_maintenance_loop", 0))
    /\ last' = Other
    /\ burst' = NoBurst
    /\ UNCHANGED <<kind, _trigger_set, _watchdog, _maintenance_loop_call, phase, done, maintenance_delay, endpoints, backoff,
                   batch, fired>>

trigger_maintenance_loop(delay) ==
    /\ phase = "running"
    /\ IF delay
       THEN UNCHANGED <<tasks, scheduled, calls>>
       ELSE /\ Len(tasks) < MaxTasks
            /\ Waiting("_maintenance_loop") < MaxMaintenance
            /\ Put(insert_task(Here, "_maintenance_loop", 0))
    /\ last' = Other
    /\ burst' = NoBurst
    /\ UNCHANGED <<kind, _trigger_set, _watchdog, _maintenance_loop_call, phase, done, maintenance_delay, endpoints, backoff,
                   batch, fired>>

\* The dispatcher and the events that enqueue at once, for each of the three
\* scheduler classes; no endpoint is registered with the monitor.
Next ==
    \/ run
    \/ Tick
    \/ _process_next
    \/ \E ep \in EPs : tunnel_rx(ep)
    \/ schedule_calvinsys
    \/ \E delay \in BOOLEAN : trigger_maintenance_loop(delay)

Spec == Init /\ [][Next]_vars

\* The async driver eventually runs a DelayedCall that is due.
FairSpec == Spec /\ WF_vars(_process_next)

\* ------------------------------------------------------ no task raises
\* The enabled lists in which no actor's fire() raises.
CalmActors ==
    {b \in EnabledActors : \A i \in 1..Len(b) : b[i].script # Raises}

\* _process_next while no actor and no collaborator raises.
ProcessNextCalm ==
    ProcessNext(CalmActors, MaxCalls, {TRUE})

\* The dispatcher and the events of Spec in runs in which no task raises.
CalmNext ==
    \/ run
    \/ Tick
    \/ ProcessNextCalm
    \/ \E ep \in EPs : tunnel_rx(ep)
    \/ schedule_calvinsys
    \/ \E delay \in BOOLEAN : trigger_maintenance_loop(delay)

CalmSpec == Init /\ [][CalmNext]_vars

\* ------------------------------------------------------- running and stopping
\* The dispatcher with platform events, and stop() called at any moment, any
\* number of times.
StopNext ==
    \/ run
    \/ Tick
    \/ _process_next
    \/ schedule_calvinsys
    \/ stop
    \/ stop_ioloop

StopSpec == Init /\ [][StopNext]_vars

\* ------------------------------------------------ endpoints and backoff
\* A SimpleScheduler whose endpoints are registered, acknowledged and refused,
\* while no actor is enabled: activity comes from the transfer of tokens only.
MonitorInit ==
    /\ kind = "SimpleScheduler"
    /\ _trigger_set = {}
    /\ _watchdog = None
    /\ _maintenance_loop_call = None
    /\ phase = "init"
    /\ done = FALSE
    /\ tasks = <<>>
    /\ scheduled = None
    /\ calls = {}
    /\ maintenance_delay = MaintenanceDelay(3)
    /\ endpoints = {}
    /\ backoff = [ep \in EPs |-> NoBackoff]
    /\ last = Other
    /\ burst = NoBurst
    /\ batch = <<>>
    /\ fired = <<>>

MonitorNext ==
    \/ run
    \/ Tick
    \/ ProcessNextQuiet
    \/ \E ep \in EPs : RegisterEndpoint(ep)
    \/ \E ep \in EPs : UnregisterEndpoint(ep)
    \/ \E ep \in EPs : tunnel_tx_ack(ep)
    \/ \E ep \in EPs : tunnel_tx_nack(ep)
    \/ \E ep \in EPs : tunnel_tx_throttle(ep)

MonitorSpec == MonitorInit /\ [][MonitorNext]_vars

\* The same scheduler and endpoints while the collaborators of the periodic
\* tasks do not raise: the monitor and the strategy ticks that consult it.
BackoffNext ==
    \/ run
    \/ Tick
    \/ ProcessNextSound
    \/ \E ep \in EPs : RegisterEndpoint(ep)
    \/ \E ep \in EPs : UnregisterEndpoint(ep)
    \/ \E ep \in EPs : tunnel_tx_ack(ep)
    \/ \E ep \in EPs : tunnel_tx_nack(ep)

BackoffSpec == MonitorInit /\ [][BackoffNext]_vars

\* ------------------------------------------------- the firing functions alone
\* A scheduler of any class is handed a list of enabled actors and fires it.
FireInit ==
    /\ kind \in SchedulerKinds
    /\ _trigger_set = {}
    /\ _watchdog = None
    /\ _maintenance_loop_call = None
    /\ phase = "init"
    /\ done = FALSE
    /\ tasks = <<>>
    /\ scheduled = None
    /\ calls = {}
    /\ maintenance_delay = DefaultMaintenanceDelay
    /\ endpoints = {}
    /\ backoff = [ep \in EPs |-> NoBackoff]
    /\ last = Other
    /\ burst = NoBurst
    /\ batch \in Batches
    /\ fired = <<>>

Fire ==
    /\ fired = <<>>
    /\ fired' = <<FireEnabled(kind, batch)>>
    /\ UNCHANGED <<kind, _trigger_set, _watchdog, _maintenance_loop_call, phase, done, tasks, scheduled, calls, maintenance_delay,
                   endpoints, backoff, last, burst, batch>>

FireNext == Fire

FireSpec == FireInit /\ [][FireNext]_vars

\* ------------------------------------------------------ one strategy tick
\* A running scheduler of any class, its queue without a strategy task, runs
\* one strategy tick on a list of enabled actors.  fired records the locals of
\* the tick: did_fire_actor_ids (as a Batch), then did_transfer_tokens.
TickInit ==
    /\ kind \in SchedulerKinds
    /\ _trigger_set = {}
    /\ _watchdog = None
    /\ _maintenance_loop_call = None
    /\ phase = "running"
    /\ done = FALSE
    /\ tasks \in {<<>>, <<[t |-> ReplicationInterval, what |-> "_check_replication"]>>}
    /\ scheduled = None
    /\ calls = {}
    /\ maintenance_delay = DefaultMaintenanceDelay
    /\ endpoints \in SUBSET EPs
    /\ backoff = [ep \in EPs |-> NoBackoff]
    /\ last = Other
    /\ burst = NoBurst
    /\ batch \in Batches
    /\ fired = <<>>

\* strategy() is called and returns or raises (a tick that never returns, its
\* non-preemptive actor firing for ever, leaves no state behind).
StrategyTick ==
    /\ fired = <<>>
    /\ ~FireEnabled(kind, batch).hang
    /\ \E did_transfer_tokens \in communicate(endpoints, backoff) :
         LET r == strategy(Here, kind, did_transfer_tokens, batch, <<>>, 0)
         IN  /\ Put(r.S)
             /\ last' = Did("strategy", "strategy",
                            IF r.ok THEN "ok" ELSE "raised", r.fault)
             /\ fired' = <<FireEnabled(kind, batch),
                           [did_transfer_tokens |-> did_transfer_tokens]>>
    /\ UNCHANGED <<kind, _trigger_set, _watchdog, _maintenance_loop_call, phase, done, maintenance_delay, endpoints, backoff,
                   burst, batch>>

TickNext == StrategyTick

TickSpec == TickInit /\ [][TickNext]_vars

\* ---------------------------------------------- one firing primitive alone
\* What one call of fire() may do: fire in 10 ms, fire in 25 ms, find nothing
\* to fire (with or without exhausted ports), raise.
EntryKinds ==
    {Entry("fire", 10, TRUE, FALSE), Entry("fire", 25, TRUE, FALSE),
     Entry("idle", 1, TRUE, FALSE), Entry("idle", 1, FALSE, TRUE),
     Entry("raise", 1, TRUE, FALSE)}

Scripts ==
    UNION {[1..n -> EntryKinds] : n \in 1..MaxScript}

\* The firing primitive the strategy of scheduler class k calls on each actor.
Primitive(k, actor) ==
    IF k = "SimpleScheduler" THEN _fire_actor(actor)
    ELSE IF k = "RoundRobinScheduler" THEN _fire_actor_once(actor)
    ELSE _fire_actor_non_preemptive(actor)

\* A scheduler of any class is handed one enabled actor.
ActorInit ==
    /\ kind \in SchedulerKinds
    /\ _trigger_set = {}
    /\ _watchdog = None
    /\ _maintenance_loop_call = None
    /\ phase = "init"
    /\ done = FALSE
    /\ tasks = <<>>
    /\ scheduled = None
    /\ calls = {}
    /\ maintenance_delay = DefaultMaintenanceDelay
    /\ endpoints = {}
    /\ backoff = [ep \in EPs |-> NoBackoff]
    /\ last = Other
    /\ burst = NoBurst
    /\ batch \in {<<Actor(1, auth, script)>> : auth \in BOOLEAN, script \in Scripts}
    /\ fired = <<>>

FireActor ==
    /\ fired = <<>>
    /\ fired' = <<Primitive(kind, batch[1])>>
    /\ UNCHANGED <<kind, _trigger_set, _watchdog, _maintenance_loop_call, phase, done, tasks, scheduled, calls, maintenance_delay,
                   endpoints, backoff, last, burst, batch>>

ActorNext == FireActor

ActorSpec == ActorInit /\ [][ActorNext]_vars

\* ------------------------------------------------------ BaselineScheduler
\* The legacy scheduler keeps no task queue: it arms _loop_once, a watchdog
\* and maintenance_loop with the driver directly.
WatchdogTimeout == 1

ActorIds == 1..MaxBatch

\* The part of the legacy scheduler its methods work on.
Legacy(sc, wd, ml, ts, cs) ==
    [scheduled |-> sc, watchdog |-> wd, maintenance_loop |-> ml,
     trigger_set |-> ts, calls |-> cs]

HereLegacy ==
    Legacy(scheduled, _watchdog, _maintenance_loop_call, _trigger_set, calls)

PutLegacy(L) ==
    /\ scheduled' = L.scheduled
    /\ _watchdog' = L.watchdog
    /\ _maintenance_loop_call' = L.maintenance_loop
    /\ _trigger_set' = L.trigger_set
    /\ calls' = L.calls

\* Identity of a newly created handle: the least one that is neither
\* outstanding nor still referred to by the scheduler.
NewHandle(L) ==
    LET used == {c.id : c \in L.calls}
                    \cup {L.scheduled, L.watchdog, L.maintenance_loop}
    IN  CHOOSE n \in 1..(Cardinality(used) + 1) :
            /\ n \notin used
            /\ \A m \in 1..(n - 1) : m \in used

\* The lists enabled_actors() may return to the legacy scheduler: the actors
\* of any set of ids, in id order, all authorized, all with nothing to fire
\* or all firing once.
EnabledLists ==
    {SelectSeq([i \in 1..MaxBatch |-> Actor(i, TRUE, script)],
               LAMBDA a : a.id \in sub) :
        sub \in SUBSET ActorIds, script \in {Idle, FiresOnce}}

all_actor_ids(actors) ==
    {actors[i].id : i \in 1..Len(actors)}

\* pending_actors without the test "a.id in self._trigger_set".
PendingActorsAll(L, actors) ==
    actors

pending_actors(L, actors) ==
    SelectSeq(actors, LAMBDA a : a.id \in L.trigger_set)

clear_pending(L) ==
    [L EXCEPT !.trigger_set = {}]

update_pending(L, actor_ids) ==
    [L EXCEPT !.trigger_set = @ \cup actor_ids]

_cancel_schedule(L) ==
    IF L.scheduled # None
    THEN [L EXCEPT !.calls = cancel(@, L.scheduled), !.scheduled = None]
    ELSE L

_cancel_watchdog(L) ==
    IF L.watchdog # None
    THEN [L EXCEPT !.calls = cancel(@, L.watchdog), !.watchdog = None]
    ELSE L

_schedule_watchdog(L) ==
    LET id == NewHandle(L)
    IN  [L EXCEPT !.watchdog = id,
                  !.calls = DelayedCall(@, id, WatchdogTimeout, "_watchdog_wakeup")]

\* actor_ids: what all_actor_ids() returns, the ids of the enabled actors.
_schedule_all(L, delay, actor_ids) ==
    LET L1 == update_pending(_cancel_schedule(_cancel_watchdog(L)), actor_ids)
        id == NewHandle(L1)
    IN  [L1 EXCEPT !.scheduled = id,
                   !.calls = DelayedCall(@, id, delay, "_loop_once")]

\* _schedule_actors without the test "if self._scheduled is None".
ScheduleActorsAlways(L, actor_ids) ==
    LET L1 == update_pending(L, actor_ids)
    IN  IF L1.trigger_set # {}
        THEN LET L2 == _cancel_watchdog(L1)
                 id == NewHandle(L2)
             IN  [L2 EXCEPT !.scheduled = id,
                            !.calls = DelayedCall(@, id, 0, "_loop_once")]
        ELSE L1

_schedule_actors(L, actor_ids) ==
    LET L1 == update_pending(L, actor_ids)
    IN  IF L1.scheduled = None /\ L1.trigger_set # {}
        THEN LET L2 == _cancel_watchdog(L1)
                 id == NewHandle(L2)
             IN  [L2 EXCEPT !.scheduled = id,
                            !.calls = DelayedCall(@, id, 0, "_loop_once")]
        ELSE L1

\* BaselineScheduler.strategy(did_transfer_tokens, did_fire_actor_ids); slot
\* is monitor.next_slot().
BaselineStrategy(L, did_transfer_tokens, did_fire_actor_ids, slot, actor_ids) ==
    LET activity == did_fire_actor_ids # {} \/ did_transfer_tokens
    IN  IF activity
        THEN _schedule_all(L, 0, actor_ids)
        ELSE IF slot # None
        THEN _schedule_all(L, Max(0, slot), actor_ids)
        ELSE _schedule_watchdog(L)

\* BaselineScheduler.schedule_calvinsys(actor_id); actor_id = None: no actor is
\* named, and actor_ids is what all_actor_ids() returns to _schedule_all.
BaselineCalvinsys(L, actor_id, actor_ids) ==
    IF actor_id = None
    THEN _schedule_all(L, 0, actor_ids)
    ELSE _schedule_actors(L, {actor_id})

\* A call of schedule_calvinsys made by an actor while it is fired: with the
\* id of any actor or with none, all_actor_ids() then being read anew.
FiringCalls ==
    {cb \in [actor_id : ActorIds \cup {None}, actor_ids : SUBSET ActorIds] :
        cb.actor_id # None => cb.actor_ids = {}}

\* The calls the actors of one batch make while they are fired, in order.
FiringCallSeqs ==
    UNION {[1..m -> FiringCalls] : m \in 0..MaxCalls}

RECURSIVE BaselineCallBacks(_, _)
BaselineCallBacks(L, cbs) ==
    IF cbs = <<>>
    THEN L
    ELSE BaselineCallBacks(BaselineCalvinsys(L, Head(cbs).actor_id,
                                             Head(cbs).actor_ids),
                           Tail(cbs))

\* The ids the calls cbs hand to update_pending.
Tagged(cbs) ==
    UNION {IF cbs[i].actor_id = None THEN cbs[i].actor_ids ELSE {cbs[i].actor_id} :
              i \in 1..Len(cbs)}

\* BaselineScheduler.trigger_maintenance_loop(delay), md = _maintenance_delay.
BaselineTrigger(L, delay, md) ==
    LET L1 == IF L.maintenance_loop # None
              THEN [L EXCEPT !.calls = cancel(@, L.maintenance_loop)]
              ELSE L
        id == NewHandle([L1 EXCEPT !.maintenance_loop = None])
    IN  [L1 EXCEPT !.maintenance_loop = id,
                   !.calls = DelayedCall(@, id, IF delay THEN md ELSE 0,
                                         "maintenance_loop")]

BaselineInit ==
    /\ kind = "BaselineScheduler"
    /\ _trigger_set = {}
    /\ _watchdog = None
    /\ _maintenance_loop_call = None
    /\ phase = "running"
    /\ done = FALSE
    /\ tasks = <<>>
    /\ scheduled = None
    /\ calls = {}
    /\ maintenance_delay = MaintenanceDelay(3)
    /\ endpoints = {1}
    /\ backoff = [ep \in EPs |-> NoBackoff]
    /\ last = Other
    /\ burst = NoBurst
    /\ batch = <<>>
    /\ fired = <<>>

\* What an event handler of the legacy scheduler leaves unchanged.
LegacyEvent ==
    /\ last' = Other
    /\ batch' = <<>>
    /\ fired' = <<>>
    /\ UNCHANGED <<kind, phase, done, tasks, maintenance_delay, endpoints, burst>>

\* tunnel_rx(endpoint), actor_id = endpoint.port.owner.id.
Baseline_tunnel_rx(actor_id) ==
    /\ PutLegacy(_schedule_actors(HereLegacy, {actor_id}))
    /\ LegacyEvent
    /\ UNCHANGED backoff

Baseline_tunnel_tx_ack(endpoint) ==
    /\ backoff' = clear_backoff(backoff, endpoint)
    /\ \E actor_ids \in SUBSET ActorIds :
         PutLegacy(_schedule_all(HereLegacy, 0, actor_ids))
    /\ LegacyEvent

Baseline_tunnel_tx_nack(endpoint) ==
    /\ backoff' = set_backoff(backoff, endpoint)
    /\ LegacyEvent
    /\ UNCHANGED <<scheduled, _watchdog, _maintenance_loop_call, _trigger_set, calls>>

\* schedule_calvinsys(actor_id); actor_id = None: no actor is named.
Baseline_schedule_calvinsys(actor_id) ==
    /\ \E actor_ids \in IF actor_id = None THEN SUBSET ActorIds ELSE {{}} :
         PutLegacy(BaselineCalvinsys(HereLegacy, actor_id, actor_ids))
    /\ LegacyEvent
    /\ UNCHANGED backoff

\* The driver runs the _loop_once that is due.  actors: enabled_actors() as
\* pending_actors() reads it before firing; cbs: the calls of
\* schedule_calvinsys the actors make while they are fired; rl_ok:
\* node.rm.replication_loop() returns normally; actor_ids: all_actor_ids() as
\* _schedule_all reads it after firing, when strategy() gets that far.  fired
\* records, after the batch, that reading, the ids the actors' calls tagged
\* and the pending set the run found.
\* (most: how many calls of schedule_calvinsys the actors fired may make.)
LoopOnce(most) ==
    \E c \in calls :
      /\ c.fn = "_loop_once"
      /\ c.at = 0
      /\ \E actors \in EnabledLists,
            L1 \in {_cancel_schedule(_cancel_watchdog(
                        [HereLegacy EXCEPT !.calls = calls \ {c}]))} :
         \E actors_to_fire \in {pending_actors(L1, actors)} :
         \E did_fire \in {_fire_actors(actors_to_fire)},
            cbs \in {s \in FiringCallSeqs :
                        /\ Len(s) <= most
                        /\ s # <<>> => actors_to_fire # <<>>} :
         \E L3 \in {BaselineCallBacks(clear_pending(L1), cbs)},
            tagged \in {Tagged(cbs)}, slot \in {next_slot(backoff)},
            rl_ok \in BOOLEAN,
            did_transfer_tokens \in communicate(endpoints, backoff) :
           LET reads == rl_ok /\ (did_transfer_tokens \/ did_fire.ids # {}
                                    \/ slot # None)
           IN  /\ \E actor_ids \in IF reads THEN SUBSET ActorIds ELSE {{}} :
                    /\ PutLegacy(IF rl_ok
                                 THEN BaselineStrategy(L3, did_transfer_tokens,
                                                       did_fire.ids, slot, actor_ids)
                                 ELSE L3)
                    /\ fired' = <<did_fire, [all_actor_ids |-> actor_ids,
                                             tagged |-> tagged,
                                             pending |-> _trigger_set]>>
               /\ last' = Did("_loop_once", "", IF rl_ok THEN "ok" ELSE "raised",
                              ~rl_ok)
               /\ batch' = actors
      /\ UNCHANGED <<kind, phase, done, tasks, maintenance_delay, endpoints,
                     backoff, burst>>

_loop_once ==
    LoopOnce(MaxCalls)

\* _loop_once while no actor calls schedule_calvinsys from its fire().
LoopOnceApart ==
    LoopOnce(0)

\* The driver runs the watchdog that is due.
_watchdog_wakeup ==
    \E c \in calls :
      /\ c.fn = "_watchdog_wakeup"
      /\ c.at = 0
      /\ \E actor_ids \in SUBSET ActorIds :
           PutLegacy(_schedule_all([HereLegacy EXCEPT !.calls = calls \ {c}],
                                   0, actor_ids))
      /\ LegacyEvent
      /\ UNCHANGED backoff

Baseline_trigger_maintenance_loop(delay) ==
    /\ PutLegacy(BaselineTrigger(HereLegacy, delay, maintenance_delay))
    /\ LegacyEvent
    /\ UNCHANGED backoff

\* The driver runs the maintenance_loop that is due.  mig_ok: every
\* migrate() and enable_or_migrate() call returns normally.
maintenance_loop ==
    \E c \in calls :
      /\ c.fn = "maintenance_loop"
      /\ c.at = 0
      /\ \E mig_ok \in BOOLEAN :
           LET L0 == [HereLegacy EXCEPT !.calls = calls \ {c}]
           IN  /\ PutLegacy(IF mig_ok
                            THEN BaselineTrigger([L0 EXCEPT !.maintenance_loop = None],
                                                 TRUE, maintenance_delay)
                            ELSE L0)
               /\ last' = Did("maintenance_loop", "",
                              IF mig_ok THEN "ok" ELSE "raised", ~mig_ok)
      /\ batch' = <<>>
      /\ fired' = <<>>
      /\ UNCHANGED <<kind, phase, done, tasks, maintenance_delay, endpoints,
                     backoff, burst>>

\* The legacy scheduler, one endpoint registered, with its events and the
\* driver.
LegacyNext ==
    \/ Tick
    \/ \E a \in ActorIds : Baseline_tunnel_rx(a)
    \/ \E ep \in endpoints : Baseline_tunnel_tx_ack(ep)
    \/ \E ep \in endpoints : Baseline_tunnel_tx_nack(ep)
    \/ \E a \in ActorIds \cup {None} : Baseline_schedule_calvinsys(a)
    \/ _loop_once
    \/ _watchdog_wakeup

LegacySpec == BaselineInit /\ [][LegacyNext]_vars

\* The legacy scheduler with platform events and its maintenance; the calls
\* of schedule_calvinsys come between the callbacks.
MaintenanceNext ==
    \/ Tick
    \/ \E a \in ActorIds \cup {None} : Baseline_schedule_calvinsys(a)
    \/ LoopOnceApart
    \/ _watchdog_wakeup
    \/ \E delay \in BOOLEAN : Baseline_trigger_maintenance_loop(delay)
    \/ maintenance_loop

MaintenanceSpec == BaselineInit /\ [][MaintenanceNext]_vars

\* ------------------------------------------------------------------ claims
Whats == {"strategy", "_check_replication", "_maintenance_loop", "watchdog"}

\* The delays insert_task is called with.
Delays == {0, ReplicationInterval, maintenance_delay, WatchdogDelay} \cup 0..BackoffMax

Sorted(ts) ==
    \A i \in 1..(Len(ts) - 1) : ts[i].t <= ts[i + 1].t

Armed ==
    \E c \in calls : c.id = scheduled /\ c.fn = "_process_next"

\* C1: the queue is sorted by non-decreasing deadline in every reachable state,
\* and insert_task places a new task after every queued task whose deadline is
\* not later than its own and before every task whose deadline is later (or
\* drops it), so that tasks run in deadline order, equal deadlines first in
\* first out.
C1_Ordering ==
    /\ Sorted(tasks)
    /\ \A what \in Whats, delay \in Delays :
         LET ts2 == insert_task(Here, what, delay).tasks
         IN  \/ ts2 = tasks
             \/ \E k \in 0..Len(tasks) :
                  /\ ts2 = InsertAt(tasks, k, [t |-> delay, what |-> what])
                  /\ \A i \in 1..k : tasks[i].t <= delay
                  /\ \A i \in (k + 1)..Len(tasks) : tasks[i].t > delay

\* Three tasks or more wait, two of them of different kinds with the same
\* deadline in the future.
C1_Witness ==
    /\ Len(tasks) >= 3
    /\ \E i \in 1..(Len(tasks) - 1) :
         /\ tasks[i].t > 0
         /\ tasks[i].t = tasks[i + 1].t
         /\ tasks[i].what # tasks[i + 1].what

\* C2: after a _process_next whose task returned normally the queue is not
\* empty (it holds the tasks that were left or the watchdog set at 60 s) and
\* the single timer is armed for the deadline of its head; the
\* "NO SCHEDULED TASK!" check does not fire.
C2_NoIdle ==
    (last.op = "_process_next" /\ last.result # "raised")
        => /\ last.result = "ok"
           /\ tasks # <<>>
           /\ \E c \in calls :
                /\ c.id = scheduled
                /\ c.fn = "_process_next"
                /\ c.at = tasks[1].t
                /\ \A d \in calls : d.fn = "_process_next" => d = c

\* A _process_next has just run a task that left the queue empty and has set
\* the watchdog.
C2_Witness ==
    /\ last.op = "_process_next"
    /\ last.result = "ok"
    /\ tasks = <<[t |-> WatchdogDelay, what |-> "watchdog"]>>
    /\ Armed

\* C3: in SimpleScheduler, after a call of tunnel_rx, tunnel_tx_ack or
\* schedule_calvinsys (its strategy enqueued, coalesced, or inserted while a
\* task was executing) a timer is armed with the driver, so that a strategy
\* tick starts once the driver fires it.
C3_TickAfterEvent ==
    (kind = "SimpleScheduler" /\ burst.calls >= 1)
        => (Armed /\ Waiting("strategy") >= 1)

\* C4: the calls of one burst of insert_task(strategy, 0), made with no
\* dispatch in between, add at most one entry to the queue, whatever was
\* queued before and whichever delayed task falls due between two of them.
C4_OnePerBurst ==
    burst.n <= 1

\* insert_task(what, delay) called in the current state dropped the task.
Dropped(what, delay) ==
    insert_task(Here, what, delay).tasks = tasks

\* C5: insert_task(strategy, 0) drops the task whenever a strategy
\* entry (every one of them was inserted with delay 0) is queued anywhere ahead
\* of the insertion point, and no task with delay > 0 is dropped.
C5_DropsBehindAnyEqual ==
    LET index == InsertionIndex(tasks, 0)
    IN  /\ (\E i \in 1..index : tasks[i].what = "strategy") => Dropped("strategy", 0)
        /\ \A what \in Whats, delay \in Delays \ {0} : ~Dropped(what, delay)

\* C6: between callbacks at most one _process_next call is outstanding with
\* the driver; it is the one self._scheduled refers to and it is armed for the
\* deadline of the head of the queue.
C6_SingleTimer ==
    /\ Cardinality({c \in calls : c.fn = "_process_next"}) <= 1
    /\ \A c \in calls :
         c.fn = "_process_next"
             => (c.id = scheduled /\ tasks # <<>> /\ c.at = tasks[1].t)

\* A strategy tick during which an actor called schedule_calvinsys has just
\* ended: the task it inserted went to the head of the queue and armed a
\* timer, and _process_next armed the timer again.
C6_Witness ==
    /\ last.op = "_process_next"
    /\ last.what = "strategy"
    /\ burst.calls = 1
    /\ burst.n = 1
    /\ tasks[1].what = "strategy"
    /\ Armed
    /\ Cardinality(calls) = 1

\* C7: when SimpleScheduler fires a batch, _fire_actor is called on every
\* actor of the batch in order whichever of them raise, no exception leaves
\* _fire_actors, the set returned holds exactly the ids of the actors whose
\* _fire_actor returned True, and strategy returns normally.
C7_FireActorsIsolates ==
    (kind = "SimpleScheduler" /\ fired # <<>>)
        => /\ fired[1].attempted = [i \in 1..Len(batch) |-> batch[i].id]
           /\ ~fired[1].raised
           /\ fired[1].ids = {batch[i].id : i \in {j \in 1..Len(batch) :
                                  LET o == _fire_actor(batch[j])
                                  IN  ~o.raised /\ o.ret}}
           /\ \A tx \in BOOLEAN :
                strategy(Here, kind, tx, batch, <<>>, 0).ok

\* SimpleScheduler fired a batch in which an actor raised and a later one fired.
C7_Witness ==
    /\ kind = "SimpleScheduler"
    /\ fired # <<>>
    /\ \E i, j \in 1..Len(batch) :
         /\ i < j
         /\ _fire_actor(batch[i]).raised
         /\ batch[j].id \in fired[1].ids

\* C8: in every scheduler class, a strategy tick during which an actor's
\* fire() raised returns normally and the enclosing _process_next leaves a
\* timer armed.
C8_StrategyIsolates ==
    (last.op = "_process_next" /\ last.what = "strategy" /\ last.fault)
        => (last.result = "ok" /\ Armed)

\* C9: a _check_replication or _maintenance_loop whose replication_loop,
\* migrate or enable_or_migrate call raised has re-enqueued itself and the
\* enclosing _process_next leaves a timer armed.
C9_PeriodicContained ==
    (/\ last.op = "_process_next"
     /\ last.what \in {"_check_replication", "_maintenance_loop"}
     /\ last.fault)
        => (Waiting(last.what) >= 1 /\ Armed)

\* C10: after run(), between callbacks, exactly one _check_replication task
\* is pending and a timer is armed to dispatch it.
C10_OneReplicationPending ==
    phase = "running" => (Waiting("_check_replication") = 1 /\ Armed)

\* C11: _process_next sets the watchdog, at 60 s, exactly when the task it ran
\* left the queue empty, so at most one watchdog waits and none waits longer
\* than 60 s; the watchdog invocation returns normally, has put strategy at
\* delay 0 in the queue (behind tasks that are due only, at the head when no
\* event came), and the timer is armed at once.
C11_Watchdog ==
    /\ Waiting("watchdog") <= 1
    /\ \A i \in 1..Len(tasks) :
         tasks[i].what = "watchdog" => tasks[i].t <= WatchdogDelay
    /\ LET S == Rearm(Sched(<<>>, scheduled, cancel(calls, scheduled)))
       IN  /\ S.tasks = <<[t |-> WatchdogDelay, what |-> "watchdog"]>>
           /\ \E c \in S.calls :
                c.id = S.scheduled /\ c.fn = "_process_next" /\ c.at = WatchdogDelay
    /\ tasks # <<>> => Rearm(Here).tasks = tasks
    /\ (last.op = "_process_next" /\ last.what = "watchdog")
           => /\ last.result = "ok"
              /\ \E i \in 1..Len(tasks) :
                   /\ tasks[i] = [t |-> 0, what |-> "strategy"]
                   /\ \A j \in 1..i : tasks[j].t = 0
              /\ Len(tasks) = 1 => tasks[1].what = "strategy"
              /\ Waiting("watchdog") = 0
              /\ \E c \in calls :
                   c.id = scheduled /\ c.fn = "_process_next" /\ c.at = 0

\* The watchdog, alone in the queue for 60 s, has just been invoked and has
\* left strategy as the only task.
C11_Witness ==
    /\ last.op = "_process_next"
    /\ last.what = "watchdog"
    /\ tasks = <<[t |-> 0, what |-> "strategy"]>>
    /\ Armed

\* Milliseconds since the start of the call when call number n of fire() has
\* returned.
RECURSIVE Elapsed(_, _)
Elapsed(script, n) ==
    IF n = 0 THEN 0 ELSE Elapsed(script, n - 1) + fire(script, n).ms

\* C12: in _fire_actor, every fire() call but the last one made fired and
\* returned within the 20 ms budget, and the last one either did not fire (the
\* first that did not), raised, or fired and returned with the budget exceeded.
C12_FireBudget ==
    (kind = "SimpleScheduler" /\ fired # <<>> /\ batch[1].auth)
        => LET script == batch[1].script
               n == fired[1].fires
           IN  /\ n >= 1
               /\ \A k \in 1..(n - 1) :
                    /\ fire(script, k).r = "fire"
                    /\ Elapsed(script, k) <= FireBudgetMs
               /\ \/ fire(script, n).r \in {"idle", "raise"}
                  \/ /\ fire(script, n).r = "fire"
                     /\ Elapsed(script, n) > FireBudgetMs
               /\ ~fired[1].hang

\* _fire_actor stopped on the third fire(), which fired: the first two fired
\* within the budget, the second ending exactly at 20 ms.
C12_Witness ==
    /\ kind = "SimpleScheduler"
    /\ fired # <<>>
    /\ batch[1].auth
    /\ fired[1].fires = 3
    /\ fire(batch[1].script, 3).r = "fire"
    /\ Elapsed(batch[1].script, 2) = FireBudgetMs

\* The handles of the stop_ioloop calls outstanding with the driver.
StopCalls ==
    {c.id : c \in {d \in calls : d.fn = "stop_ioloop"}}

\* C13: a step posts stop_ioloop to the driver only when done is False (the
\* first stop()), never a second one, and no step takes done from True back to
\* False.
C13_StopOnce ==
    [][/\ done => done'
       /\ ~(StopCalls' \subseteq StopCalls) => (~done /\ done')
       /\ Cardinality(StopCalls') <= 1]_vars

\* stop() has been called while tasks wait: done is set, and one stop_ioloop
\* call waits for the driver next to the timer.
C13_Witness ==
    /\ done
    /\ phase = "running"
    /\ Cardinality(StopCalls) = 1
    /\ Armed
    /\ Len(tasks) >= 2

\* The queue run() leaves on a fresh scheduler whose maintenance delay is md.
Primed(md) ==
    LET s == [t |-> 0, what |-> "strategy"]
        r == [t |-> ReplicationInterval, what |-> "_check_replication"]
        m == [t |-> md, what |-> "_maintenance_loop"]
    IN  IF md <= ReplicationInterval THEN <<s, m, r>> ELSE <<s, r, m>>

\* C14: run() leaves exactly strategy at 0, _check_replication at the
\* replication interval and _maintenance_loop at the maintenance delay in the
\* queue, in deadline order, with one timer armed at delay 0; no event and no
\* passing of time displaces a head that is due, and _process_next runs the
\* head, so that the first task dispatched is strategy.
C14_RunPrimes ==
    [][/\ (phase = "init" /\ phase' = "running")
            => /\ tasks' = Primed(maintenance_delay)
               /\ calls' = {[id |-> scheduled', fn |-> "_process_next", at |-> 0]}
       /\ (/\ phase = "running"
           /\ last'.op # "_process_next"
           /\ tasks # <<>>
           /\ tasks[1].t = 0)
            => (tasks' # <<>> /\ tasks'[1] = tasks[1])
       /\ (last'.op = "_process_next" /\ tasks # <<>>)
            => last'.what = tasks[1].what]_vars

\* With a maintenance delay shorter than the replication interval, the first
\* dispatch after run() has just run strategy and left the two periodic tasks.
C14_Witness ==
    /\ maintenance_delay < ReplicationInterval
    /\ last.op = "_process_next"
    /\ last.what = "strategy"
    /\ tasks = <<[t |-> maintenance_delay, what |-> "_maintenance_loop"],
                 [t |-> ReplicationInterval, what |-> "_check_replication"]>>
    /\ Armed

\* C15: in SimpleScheduler a step of tunnel_tx_nack(ep) leaves ep backed off
\* and, next_slot() being defined, leaves a strategy task queued at
\* max(now, next_slot) with a timer armed to fire no later than that deadline,
\* so that a strategy tick runs once the backoff has expired; when next_slot()
\* is undefined the queue and the timer are unchanged.
C15_NackEnqueuesTick ==
    [][\A ep \in EPs :
           tunnel_tx_nack(ep) =>
               LET slot == next_slot(backoff')
               IN  /\ backoff'[ep].on
                   /\ slot # None =>
                          /\ \E i \in 1..Len(tasks') :
                                 tasks'[i] = [t |-> Max(0, slot), what |-> "strategy"]
                          /\ \E c \in calls' : /\ c.id = scheduled'
                                                /\ c.fn = "_process_next"
                                                /\ c.at <= Max(0, slot)
                   /\ slot = None => UNCHANGED <<tasks, scheduled, calls>>]_vars

\* C16: nack then recover. With every endpoint registered and none backed
\* off, a step of tunnel_tx_nack(e) leaves next_slot() defined; a later step
\* of tunnel_tx_ack(e), e the only endpoint backed off, leaves next_slot()
\* undefined and e cleared, so communicate() of the next strategy tick may
\* transfer on e, and leaves a strategy task due now with a timer armed for
\* it, so that a strategy tick runs at or after the ack.
C16_NackThenRecover ==
    [][\A e \in EPs :
           /\ (/\ endpoints = EPs
               /\ \A ep \in EPs : ~backoff[ep].on
               /\ tunnel_tx_nack(e))
                  => next_slot(backoff') # None
           /\ (/\ endpoints = EPs
               /\ backoff[e].on
               /\ \A ep \in EPs \ {e} : ~backoff[ep].on
               /\ tunnel_tx_ack(e))
                  => /\ next_slot(backoff') = None
                     /\ backoff'[e] = NoBackoff
                     /\ e \in Ready(endpoints', backoff')
                     /\ \E i \in 1..Len(tasks') :
                            tasks'[i] = [t |-> 0, what |-> "strategy"]
                     /\ \E c \in calls' : /\ c.id = scheduled'
                                           /\ c.fn = "_process_next"
                                           /\ c.at = 0]_vars

\* C17: a strategy tick of any scheduler class that ends leaves a strategy
\* task at delay 0 in the queue if and only if communicate() transferred a
\* token or at least one actor fired, and enqueues nothing else; a tick with
\* no activity leaves the queue as it was.
C17_TickRepeatsIffActivity ==
    Len(fired) = 2
        => LET activity == fired[2].did_transfer_tokens \/ fired[1].ids # {}
           IN  /\ (\E i \in 1..Len(tasks) : tasks[i] = [t |-> 0, what |-> "strategy"])
                      <=> activity
               /\ Waiting("strategy") = (IF activity THEN 1 ELSE 0)
               /\ Len(tasks) - Waiting("strategy") <= 1

\* Number of queued tasks that are due.
Due ==
    Cardinality({i \in 1..Len(tasks) : tasks[i].t <= 0})

\* C18: a step of trigger_maintenance_loop(True) leaves the task queue and the
\* armed timer unchanged; a step of trigger_maintenance_loop(False) either
\* coalesces (the last due task is a _maintenance_loop: nothing changes) or
\* puts _maintenance_loop at delay 0 behind the due tasks, re-arming the timer
\* at 0 only if it became the head; neither changes anything else.
C18_TriggerMaintenance ==
    [][/\ trigger_maintenance_loop(TRUE) => UNCHANGED <<tasks, scheduled, calls>>
       /\ trigger_maintenance_loop(FALSE) =>
              IF Due > 0 /\ tasks[Due].what = "_maintenance_loop"
              THEN UNCHANGED <<tasks, scheduled, calls>>
              ELSE /\ tasks' = SubSeq(tasks, 1, Due)
                                   \o <<[t |-> 0, what |-> "_maintenance_loop"]>>
                                   \o SubSeq(tasks, Due + 1, Len(tasks))
                   /\ IF Due = 0
                      THEN /\ calls' = cancel(calls, scheduled)
                                           \cup {[id |-> scheduled',
                                                  fn |-> "_process_next", at |-> 0]}
                           /\ \A c \in cancel(calls, scheduled) : c.id # scheduled'
                      ELSE UNCHANGED <<scheduled, calls>>
       /\ (\E delay \in BOOLEAN : trigger_maintenance_loop(delay))
              => UNCHANGED <<kind, _trigger_set, _watchdog, _maintenance_loop_call, phase, done, maintenance_delay, endpoints,
                             backoff>>]_vars

\* trigger_maintenance_loop(False) has put a second _maintenance_loop, due
\* now, next to the periodic one.
C18_Witness ==
    /\ last = Other
    /\ Waiting("_maintenance_loop") = 2
    /\ \E i \in 1..Len(tasks) : tasks[i] = [t |-> 0, what |-> "_maintenance_loop"]
    /\ \E i \in 1..Len(tasks) : tasks[i].what = "_maintenance_loop" /\ tasks[i].t > 0
    /\ Armed

\* The calls one strategy pass of RoundRobinScheduler made on the actor at
\* position i of the enabled list: those of _fire_actor_once if the pass
\* reached the actor, none otherwise.
PassOn(i) ==
    IF i <= Len(fired[1].attempted)
    THEN _fire_actor_once(batch[i])
    ELSE Outcome(FALSE, FALSE, FALSE, 0, <<>>, 0)

\* C20: a strategy pass of RoundRobinScheduler calls fire() exactly once on
\* every enabled actor that is authorized, whether it fired or not, calls
\* _handle_exhaustion on it if and only if that fire() returned did_fire
\* False, and calls neither on an actor that is not authorized.
C20_RoundRobinOnce ==
    (kind = "RoundRobinScheduler" /\ Len(fired) = 2)
        => \A i \in 1..Len(batch) :
               IF batch[i].auth
               THEN /\ PassOn(i).fires = 1
                    /\ (Len(PassOn(i).exh) = 1) <=> (fire(batch[i].script, 1).r = "idle")
                    /\ Len(PassOn(i).exh) <= 1
               ELSE PassOn(i).fires = 0 /\ PassOn(i).exh = <<>>

\* C21: _fire_actor_non_preemptive on an authorized actor returns exactly
\* when a fire() of the call returned did_fire False: every earlier fire()
\* fired, however long it took, _handle_exhaustion is called once, last, with
\* the exhausted and output_ok of that fire(), and True is returned iff there
\* was an earlier fire(); the call never ends exactly when every fire() of the
\* actor fires, and otherwise ends on the first fire() that does not fire.
C21_NonPreemptive ==
    (kind = "NonPreemptiveScheduler" /\ fired # <<>> /\ batch[1].auth)
        => LET script == batch[1].script
               o == fired[1]
               n == o.fires
               last_fire == fire(script, n)
           IN  /\ n >= 1
               /\ (~o.raised /\ ~o.hang) <=> (last_fire.r = "idle")
               /\ (~o.raised /\ ~o.hang)
                      => /\ \A k \in 1..(n - 1) : fire(script, k).r = "fire"
                         /\ o.exh = <<(<<last_fire.exhausted, last_fire.output_ok>>)>>
                         /\ o.ret <=> (n > 1)
               /\ o.hang <=> (\A k \in 1..Len(script) : script[k].r = "fire")
               /\ o.hang => o.exh = <<>>
               /\ ~o.hang => /\ fire(script, n).r # "fire"
                             /\ \A k \in 1..(n - 1) : fire(script, k).r = "fire"

\* The non-preemptive primitive returned True after two fire() calls that
\* took more than 20 ms together and a third that did not fire.
C21_Witness ==
    /\ kind = "NonPreemptiveScheduler"
    /\ fired # <<>>
    /\ batch[1].auth
    /\ fired[1].fires = 3
    /\ fired[1].ret
    /\ Len(fired[1].exh) = 1
    /\ Elapsed(batch[1].script, 2) > FireBudgetMs

\* C22: in a call of the preemptive _fire_actor on an authorized actor,
\* _handle_exhaustion is called at most once, and exactly when the call ended
\* on a fire() that returned did_fire False, with the exhausted and output_ok
\* of that fire(); a call ended by the 20 ms budget does not call it; the value
\* returned is True iff some fire() of the call fired.  An actor whose fire()
\* returns (True, True, False) then (False, True, False) within the budget
\* gets two fire() calls, _handle_exhaustion(False, True) once, True returned
\* and, from the strategy tick, a strategy task at delay 0.
C22_PreemptiveExhaustion ==
    (kind = "SimpleScheduler" /\ fired # <<>> /\ batch[1].auth)
        => LET script == batch[1].script
               o == fired[1]
               n == o.fires
               last_fire == fire(script, n)
           IN  /\ Len(o.exh) <= 1
               /\ (Len(o.exh) = 1) <=> (last_fire.r = "idle")
               /\ last_fire.r = "idle"
                      => o.exh = <<(<<last_fire.exhausted, last_fire.output_ok>>)>>
               /\ last_fire.r = "fire"
                      => (Elapsed(script, n) > FireBudgetMs /\ o.exh = <<>>)
               /\ ~o.raised
                      => (o.ret <=> \E k \in 1..n : fire(script, k).r = "fire")
               /\ (/\ Len(script) >= 2
                   /\ script[1] = Entry("fire", 10, TRUE, FALSE)
                   /\ script[2] = Entry("idle", 1, TRUE, FALSE))
                      => /\ n = 2
                         /\ o.exh = <<(<<FALSE, TRUE>>)>>
                         /\ o.ret
                         /\ strategy(Here, kind, FALSE, batch, <<>>, 0).S.tasks
                                = <<[t |-> 0, what |-> "strategy"]>>

\* The preemptive primitive was called on the actor of the walkthrough: it
\* fired once, found nothing on the second fire() and handled exhaustion.
C22_Witness ==
    /\ kind = "SimpleScheduler"
    /\ fired # <<>>
    /\ batch[1].auth
    /\ batch[1].script[1] = Entry("fire", 10, TRUE, FALSE)
    /\ Len(batch[1].script) >= 2
    /\ batch[1].script[2] = Entry("idle", 1, TRUE, FALSE)
    /\ fired[1].exh = <<(<<FALSE, TRUE>>)>>
    /\ fired[1].ret

\* C23: while no task raises, between callbacks of a scheduler started with
\* run() the queue holds a _check_replication task and a _maintenance_loop
\* task, so it is not empty at the end of _process_next, and the watchdog is
\* neither enqueued nor invoked.
C23_PeriodicPending ==
    phase = "running"
        => /\ Waiting("_check_replication") >= 1
           /\ Waiting("_maintenance_loop") >= 1
           /\ tasks # <<>>
           /\ Waiting("watchdog") = 0
           /\ last.what # "watchdog"
           /\ last.result = "ok"

\* _process_next has just run a _maintenance_loop that left nothing else due.
C23_Witness ==
    /\ last.op = "_process_next"
    /\ last.what = "_maintenance_loop"
    /\ Waiting("_maintenance_loop") = 1
    /\ Waiting("_check_replication") = 1
    /\ Waiting("strategy") = 1

\* C24: the pending _maintenance_loop tasks are not bounded by one and no
\* chain ever ends: a trigger_maintenance_loop(False) that is not coalesced
\* adds one, a _maintenance_loop that is run re-enqueues itself at
\* maintenance_delay next to the others, and no step makes their number
\* smaller, so every chain started remains queued for ever.
C24_MaintenanceChains ==
    [][/\ Waiting("_maintenance_loop")' >= Waiting("_maintenance_loop")
       /\ (trigger_maintenance_loop(FALSE) /\ tasks' # tasks)
              => Waiting("_maintenance_loop")' = Waiting("_maintenance_loop") + 1
       /\ (last'.op = "_process_next" /\ last'.what = "_maintenance_loop")
              => /\ Waiting("_maintenance_loop")' = Waiting("_maintenance_loop")
                 /\ \E i \in 1..Len(tasks') :
                        tasks'[i] = [t |-> maintenance_delay,
                                     what |-> "_maintenance_loop"]]_vars

\* C25: no task is executed before its deadline: in every step in which
\* _process_next pops the head of the queue and runs it, that task is due;
\* and between callbacks no timer is armed to fire before the deadline of the
\* head.
C25_NeverEarly ==
    [][/\ (last'.op = "_process_next" /\ last'.what # "")
              => (tasks # <<>> /\ tasks[1].t = 0 /\ tasks[1].what = last'.what)
       /\ \A c \in calls' :
              c.fn = "_process_next" => (tasks' # <<>> /\ tasks'[1].t <= c.at)]_vars

\* _process_next has run _check_replication, which waited two seconds for
\* its deadline, and has re-armed the timer for the head it left, due now,
\* ahead of a task that is not yet due.
C25_Witness ==
    /\ last.op = "_process_next"
    /\ last.what = "_check_replication"
    /\ last.result = "ok"
    /\ tasks # <<>>
    /\ tasks[1] = [t |-> 0, what |-> "strategy"]
    /\ \E i \in 1..Len(tasks) : tasks[i].t > 0
    /\ \E c \in calls : c.id = scheduled /\ c.at = 0

\* C26: a tunnel_tx_nack that finds next_slot() in the future is never
\* coalesced: the step adds one strategy entry, at next_slot(), to the queue
\* whatever is queued already, so nacks that follow each other with no dispatch
\* in between leave one strategy entry each.
C26_NackNeverCoalesced ==
    [][\A ep \in EPs :
           (tunnel_tx_nack(ep) /\ next_slot(backoff') > 0)
               => /\ Len(tasks') = Len(tasks) + 1
                  /\ Waiting("strategy")' = Waiting("strategy") + 1
                  /\ \E i \in 1..Len(tasks') :
                         /\ tasks'[i] = [t |-> next_slot(backoff'), what |-> "strategy"]
                         /\ tasks = SubSeq(tasks', 1, i - 1)
                                      \o SubSeq(tasks', i + 1, Len(tasks'))]_vars

\* Two nacks with no dispatch in between have left two strategy entries that
\* are not yet due, next to each other.
C26_Witness ==
    /\ last = Other
    /\ \E i \in 1..(Len(tasks) - 1) :
         /\ tasks[i].what = "strategy" /\ tasks[i].t > 0
         /\ tasks[i + 1].what = "strategy" /\ tasks[i + 1].t = tasks[i].t
    /\ \E ep \in endpoints : backoff[ep].on /\ backoff[ep].until > 0

\* The _loop_once calls outstanding with the driver.
LoopCalls == {c \in calls : c.fn = "_loop_once"}

\* C27: in every reachable state of the legacy scheduler at most one
\* _loop_once call is outstanding with the driver, and it is the one
\* _scheduled refers to, after any interleaving of tunnel_rx, tunnel_tx_ack,
\* schedule_calvinsys, watchdog wake-ups and _loop_once runs.
C27_OneLoopOnce ==
    /\ Cardinality(LoopCalls) <= 1
    /\ \A c \in LoopCalls : scheduled = c.id

\* A _loop_once is scheduled for later, ids were tagged, no second one armed.
C27_Witness ==
    /\ kind = "BaselineScheduler"
    /\ \E c \in LoopCalls : c.at > 0 /\ scheduled = c.id
    /\ Cardinality(LoopCalls) = 1
    /\ Cardinality(_trigger_set) >= 2

\* The wake-ups of the legacy scheduler outstanding with the driver.
WakeUps == {c \in calls : c.fn \in {"_loop_once", "_watchdog_wakeup"}}

\* C28: after every completed _loop_once of the legacy scheduler exactly one
\* wake-up is armed (a _loop_once or the watchdog), and in no state reached
\* are a scheduled _loop_once and the watchdog both active.
C28_OneWakeUp ==
    [][/\ (last'.op = "_loop_once" /\ last'.result = "ok")
           => Cardinality(WakeUps') = 1
       /\ ~(\E c, w \in calls' : /\ c.fn = "_loop_once"
                                 /\ w.fn = "_watchdog_wakeup")]_vars

\* C29: a _loop_once of the legacy scheduler fires exactly the enabled actors
\* whose ids are in the pending set when it runs, in the order of
\* enabled_actors(), so that an enabled actor that was not tagged is not fired;
\* the pending set is emptied before firing, so every id in it afterwards was
\* tagged again during the run, by a call of schedule_calvinsys an actor made
\* while it was fired or by the _schedule_all of strategy() for the actors
\* enabled then: an id tagged before the run for an actor that was not enabled
\* is discarded.
C29_FiresPendingEnabled ==
    [][last'.op = "_loop_once"
       => /\ fired'[1].attempted =
                [i \in 1..Len(SelectSeq(batch', LAMBDA a : a.id \in _trigger_set))
                    |-> SelectSeq(batch', LAMBDA a : a.id \in _trigger_set)[i].id]
          /\ _trigger_set' \subseteq fired'[2].tagged \cup fired'[2].all_actor_ids]_vars

\* A _loop_once fired the one enabled actor that was pending; the id that was
\* pending for an actor not enabled is gone, and the pending set holds what
\* the actor fired tagged by its calls of schedule_calvinsys.
C29_Witness ==
    /\ kind = "BaselineScheduler"
    /\ last.op = "_loop_once"
    /\ last.result = "ok"
    /\ Len(fired[1].attempted) = 1
    /\ \E id \in fired[2].pending :
         /\ id \notin all_actor_ids(batch)
         /\ id \notin _trigger_set
    /\ fired[2].tagged # {}
    /\ _trigger_set = fired[2].tagged

\* The maintenance_loop calls outstanding with the driver.
MaintenanceCalls == {c \in calls : c.fn = "maintenance_loop"}

\* C30: at most one maintenance_loop call of the legacy scheduler is
\* outstanding at any time, and each maintenance_loop run re-arms exactly one
\* delayed successor, for any interleaving of trigger_maintenance_loop calls
\* and maintenance_loop runs.
C30_OneMaintenanceLoop ==
    [][/\ Cardinality(MaintenanceCalls') <= 1
       /\ last'.op = "maintenance_loop"
            => \E c \in calls' : /\ MaintenanceCalls' = {c}
                                 /\ c.id = _maintenance_loop_call'
                                 /\ c.at = maintenance_delay]_vars

====
